---------------------------- MODULE Spec2Model ----------------------------
(***************************************************************************)
(* A model of calcrete: the Bar and Reinforcement classes of               *)
(* reinforcement.py, the Element class of sections.py and the Circular and *)
(* Rectangular classes of geometry.py.                                     *)
(*                                                                         *)
(* Python values are tagged records.  A float is an IEEE-754 binary64      *)
(* number: sign, a 53-bit significand held in two limbs (hi: the top 26    *)
(* bits, lo: the low 27 bits) and a binary exponent e, the value being     *)
(* (-1)^neg * (hi * 2^27 + lo) * 2^e.  True division rounds to nearest,    *)
(* ties to even, as CPython's float division does.                         *)
(***************************************************************************)
EXTENDS Integers, Sequences, FiniteSets, TLC

\* ------------------------------------------------------------ bounds
\* Largest coordinate passed to Bar.set_coordinates.
MaxCoord == 3
\* Largest radius of the Circular a Bar is built from / an Element is given.
MaxRadius == 3
\* Largest length passed to Element.set_length_1/2/3.
MaxLen == 4
\* Largest |quantity| passed to Reinforcement.set_quantity, and the cap on the
\* |quantity| calculate_quantity may produce.
MaxQuantity == 2
\* Largest |effective_space| passed to calculate_spacing / calculate_quantity.
MaxSpace == 2
\* Largest |spacing| passed to Reinforcement.set_spacing.
MaxSpacing == 2
\* The round trip calculate_spacing(E); calculate_quantity(E): the largest
\* quantity a Reinforcement is constructed with and the largest E.
MaxTripQuantity == 8
MaxTripSpace == 9

\* ------------------------------------------------------------ Python values
PyNone == [kind |-> "None"]
PyInt(n) == [kind |-> "int", v |-> n]
PyStr(t) == [kind |-> "str", s |-> t]
PyFloat(neg, hi, lo, e) == [kind |-> "float", neg |-> neg, hi |-> hi, lo |-> lo, e |-> e]

\* isinstance(x, int), isinstance(x, (int, float)), isinstance(x, str)
IsInt(x) == x.kind = "int"
IsNumber(x) == x.kind \in {"int", "float"}
IsStr(x) == x.kind = "str"

\* ------------------------------------------------------------ binary64
\* Significand width of a Python float (IEEE-754 binary64) and the limb width.
MantBits == 53
LimbBits == 27

RECURSIVE Pow2(_)
Pow2(n) == IF n <= 0 THEN 1 ELSE 2 * Pow2(n - 1)

Limb == Pow2(LimbBits)
\* hi of a normalised significand lies in [HiMin, 2 * HiMin)
HiMin == Pow2(MantBits - LimbBits - 1)

Abs(n) == IF n < 0 THEN -n ELSE n

\* The number of bits of n > 0.
RECURSIVE BitLen(_)
BitLen(n) == IF n = 0 THEN 0 ELSE 1 + BitLen(n \div 2)

FloatZero(neg) == PyFloat(neg, 0, 0, 0)
IsZeroFloat(f) == f.hi = 0 /\ f.lo = 0

\* float(n) for an int n with |n| < 2^26: exact.
IntToFloat(n) ==
    IF n = 0 THEN FloatZero(FALSE)
    ELSE LET L == BitLen(Abs(n))
         IN  PyFloat(n < 0, Abs(n) * Pow2(MantBits - LimbBits - L), 0, L - MantBits)

\* The operand of a true division as a float.
ToFloat(x) == IF x.kind = "int" THEN IntToFloat(x.v) ELSE x

\* Two-limb comparison and subtraction (a >= b assumed for BigSub).
BigGeq(ahi, alo, bhi, blo) == ahi > bhi \/ (ahi = bhi /\ alo >= blo)
BigSubHi(ahi, alo, bhi, blo) == IF alo >= blo THEN ahi - bhi ELSE ahi - bhi - 1
BigSubLo(ahi, alo, bhi, blo) == IF alo >= blo THEN alo - blo ELSE alo + Limb - blo

\* Binary long division of significands.  st = [rhi, rlo: the remainder;
\* qhi, qlo: the quotient bits so far; n: how many bits were produced].
\* One step doubles the remainder, emits one quotient bit and subtracts.
DivStep(st, dhi, dlo) ==
    LET r2lo == 2 * st.rlo
        shi  == 2 * st.rhi + (r2lo \div Limb)
        slo  == r2lo % Limb
        bit  == IF BigGeq(shi, slo, dhi, dlo) THEN 1 ELSE 0
        q2lo == 2 * st.qlo + bit
    IN  [rhi |-> IF bit = 1 THEN BigSubHi(shi, slo, dhi, dlo) ELSE shi,
         rlo |-> IF bit = 1 THEN BigSubLo(shi, slo, dhi, dlo) ELSE slo,
         qhi |-> 2 * st.qhi + (q2lo \div Limb),
         qlo |-> q2lo % Limb,
         n   |-> st.n + 1]

\* Steps until the quotient holds MantBits significant bits.
RECURSIVE DivLoop(_, _, _)
DivLoop(st, dhi, dlo) ==
    IF st.qhi >= HiMin THEN st ELSE DivLoop(DivStep(st, dhi, dlo), dhi, dlo)

\* a / b for floats a, b with b # 0: the exact quotient rounded to nearest,
\* ties to even (exponent range is not modelled: no overflow or subnormals
\* arise from the small operands used here).
FloatDiv(a, b) ==
    IF IsZeroFloat(a) THEN FloatZero(a.neg # b.neg)
    ELSE LET first == IF BigGeq(a.hi, a.lo, b.hi, b.lo) THEN 1 ELSE 0
             st0 == [rhi |-> IF first = 1 THEN BigSubHi(a.hi, a.lo, b.hi, b.lo) ELSE a.hi,
                     rlo |-> IF first = 1 THEN BigSubLo(a.hi, a.lo, b.hi, b.lo) ELSE a.lo,
                     qhi |-> 0, qlo |-> first, n |-> 0]
             st  == DivLoop(st0, b.hi, b.lo)
             rnd == DivStep(st, b.hi, b.lo)
             roundBit == rnd.qlo % 2
             sticky == rnd.rhi # 0 \/ rnd.rlo # 0
             up  == roundBit = 1 /\ (sticky \/ st.qlo % 2 = 1)
             ulo == IF up THEN (st.qlo + 1) % Limb ELSE st.qlo
             uhi == IF up /\ st.qlo + 1 = Limb THEN st.qhi + 1 ELSE st.qhi
             e0  == a.e - b.e - st.n
         IN  IF uhi = 2 * HiMin
             THEN PyFloat(a.neg # b.neg, HiMin, 0, e0 + 1)
             ELSE PyFloat(a.neg # b.neg, uhi, ulo, e0)

\* int(f): truncation toward zero, for |f| < 2^26.
FloatToInt(f) ==
    IF IsZeroFloat(f) \/ f.e <= -MantBits THEN 0
    ELSE LET mag == f.hi \div Pow2(-f.e - LimbBits)
         IN  IF f.neg THEN -mag ELSE mag

\* f * n for a float f and an int 0 < n <= 16, rounded to nearest, ties to even.
FloatMulInt(f, n) ==
    IF IsZeroFloat(f) THEN f
    ELSE LET pl  == f.lo * n
             plo == pl % Limb
             phi == f.hi * n + (pl \div Limb)
             k   == BitLen(phi) - (MantBits - LimbBits)
             out == plo % Pow2(k)
             half == Pow2(k - 1)
             klo == (plo \div Pow2(k)) + (phi % Pow2(k)) * Pow2(LimbBits - k)
             khi == phi \div Pow2(k)
             up  == k > 0 /\ (out > half \/ (out = half /\ klo % 2 = 1))
             ulo == IF up THEN (klo + 1) % Limb ELSE klo
             uhi == IF up /\ klo + 1 = Limb THEN khi + 1 ELSE khi
         IN  IF uhi = 2 * HiMin
             THEN PyFloat(f.neg, HiMin, 0, f.e + k + 1)
             ELSE PyFloat(f.neg, uhi, ulo, f.e + k)

\* math.pi = 0x400921FB54442D18 = 7074237752028440 * 2^-51
MathPi == PyFloat(FALSE, 52707178, 71576856, -51)

\* ------------------------------------------------------------ results
\* What a call returns: a value, or the exception it raises.
Ok(v) == [status |-> "ok", value |-> v]
Raise(exc) == [status |-> "raise", exc |-> exc]
NoCall == [status |-> "none"]

\* ------------------------------------------------------------ geometry.py
\* Circular.__init__: the instance's attributes (no validation of radius).
Circular_init(radius) ==
    [cls |-> "Circular", geometry_section |-> "CIRCULAR", radius |-> radius]

\* Rectangular.__init__: the instance's attributes (no validation of lengths).
Rectangular_init(length_1, length_2) ==
    [cls |-> "Rectangular", geometry_section |-> "RECTANGULAR",
     length_1 |-> length_1, length_2 |-> length_2]

\* Circular.shape: Point(0, 0).buffer(radius), a polygon computed by shapely;
\* it is kept symbolic, a function of the radius alone.
Circular_shape(c) == [kind |-> "Polygon", of |-> "buffer", radius |-> c.radius]

\* Circular.area: the area of that polygon.
Circular_area(c) == [kind |-> "area", shape |-> Circular_shape(c)]

\* The names a Circular instance answers to: the attributes __init__ sets and
\* the properties and methods the class and its base define.
CircularAttributes ==
    {"geometry_section", "radius", "shape", "area", "perimeter", "centroid",
     "properties_dict"}

\* getattr(c, name) on a Circular instance, for the names the model reads.
Circular_getattr(c, name) ==
    IF name \notin CircularAttributes THEN Raise("AttributeError")
    ELSE CASE name = "radius" -> Ok(c.radius)
           [] name = "area" -> Ok(Circular_area(c))
           [] name = "shape" -> Ok(Circular_shape(c))
           [] OTHER -> Ok(PyNone)

\* ------------------------------------------------------------ reinforcement.py: Bar
\* Bar.__init__
Bar_init(geometry) == [geometry |-> geometry, x |-> PyNone, y |-> PyNone]

\* Bar.diameter: self.geometry.diameter
Bar_diameter(b) == Circular_getattr(b.geometry, "diameter")

\* Bar.area: self.geometry.area
Bar_area(b) == Circular_getattr(b.geometry, "area")

\* The message Bar.coordinates returns from its except branch.
NoCoordinates == PyStr("No coordinates assigned yet")

PyTuple(a, b) == [kind |-> "tuple", items |-> <<a, b>>]

\* Bar.coordinates: (self.x, self.y), or the message when reading self.x or
\* self.y raises AttributeError, that is when the instance has no such attribute.
Bar_coordinates(b) ==
    IF {"x", "y"} \subseteq DOMAIN b THEN Ok(PyTuple(b.x, b.y)) ELSE Ok(NoCoordinates)

\* Bar.set_coordinates
Bar_set_coordinates(b, x, y) == [b EXCEPT !.x = x, !.y = y]

\* ------------------------------------------------------------ sections.py: Element
\* Element.__init__
Element_init(geometry_section) ==
    [section |-> geometry_section, length_1 |-> PyNone, length_2 |-> PyNone,
     length_3 |-> PyNone, radius |-> PyNone, geometry |-> PyNone]

\* a * b as Python evaluates it on the values used here: int * int, float * int;
\* None as an operand raises TypeError.
PyMul(a, b) ==
    IF a.kind = "int" /\ b.kind = "int" THEN Ok(PyInt(a.v * b.v))
    ELSE IF a.kind = "float" /\ b.kind = "int" THEN Ok(FloatMulInt(a, b.v))
    ELSE Raise("TypeError")

\* a ** 2 for an int or None.
PySquare(a) == IF a.kind = "int" THEN Ok(PyInt(a.v * a.v)) ELSE Raise("TypeError")

\* r * b where r is the result of the left operand (evaluated first).
ThenMul(r, b) == IF r.status = "ok" THEN PyMul(r.value, b) ELSE r

\* Mutant of Element.volume: the rectangular volume from a stale third factor
\* (length_2 used where length_3 is meant).
Element_volume_stale(e) ==
    IF e.section = "RECTANGULAR"
    THEN ThenMul(PyMul(e.length_1, e.length_2), e.length_2)
    ELSE IF e.section = "CIRCULAR"
    THEN LET sq == PySquare(e.radius)
         IN  IF sq.status = "ok" THEN ThenMul(PyMul(MathPi, sq.value), e.length_1) ELSE sq
    ELSE Raise("ValueError")

\* Element.volume
Element_volume(e) ==
    IF e.section = "RECTANGULAR"
    THEN ThenMul(PyMul(e.length_1, e.length_2), e.length_3)
    ELSE IF e.section = "CIRCULAR"
    THEN LET sq == PySquare(e.radius)
         IN  IF sq.status = "ok" THEN ThenMul(PyMul(MathPi, sq.value), e.length_1) ELSE sq
    ELSE Raise("ValueError")

\* Element.section_12 / section_13 / section_23 / circular_section
Element_section_12(e) == Ok(Rectangular_init(e.length_1, e.length_2))
Element_section_13(e) == Ok(Rectangular_init(e.length_1, e.length_3))
Element_section_23(e) == Ok(Rectangular_init(e.length_2, e.length_3))
Element_circular_section(e) == Ok(Circular_init(e.radius))

\* ------------------------------------------------------------ reinforcement.py: Reinforcement
\* Reinforcement.__init__
Reinforcement_init(b, cover, location, quantity, spacing) ==
    [bar |-> b, cover |-> cover, location |-> location,
     quantity |-> quantity, spacing |-> spacing]

\* raise ValueError(msg)
RaiseValueError(msg) == [status |-> "raise", exc |-> "ValueError", msg |-> msg]

\* The messages of the ValueErrors the class raises.
InvalidLocation == "Provide a valid location (string)"
InvalidQuantityArgument == "Provide a valid quantity (integer)"
InvalidSpacingArgument == "Provide a valid spacing (number)"
MissingQuantity == "Provide a valid quantity of bars first."
InvalidQuantity == "Quantity must be greater than 1 to calculate spacing."
MissingSpacing == "Provide a valid spacing first."
InvalidSpacing == "Spacing must be greater than 0 to calculate quantity."

\* A method's outcome: the instance after the call and what the call returned.
Outcome(self, ret) == [self |-> self, ret |-> ret]

\* Reinforcement.set_cover
Reinforcement_set_cover(r, cover) == Outcome([r EXCEPT !.cover = cover], Ok(PyNone))

\* Reinforcement.set_location
Reinforcement_set_location(r, location) ==
    IF IsStr(location)
    THEN Outcome([r EXCEPT !.location = location], Ok(PyNone))
    ELSE Outcome(r, RaiseValueError(InvalidLocation))

\* Mutant of Reinforcement.set_quantity: the type test of set_spacing,
\* isinstance(quantity, (int, float)).
Reinforcement_set_quantity_any_number(r, quantity) ==
    IF IsNumber(quantity)
    THEN Outcome([r EXCEPT !.quantity = quantity], Ok(PyNone))
    ELSE Outcome(r, RaiseValueError(InvalidQuantityArgument))

\* Reinforcement.set_quantity
Reinforcement_set_quantity(r, quantity) ==
    IF IsInt(quantity)
    THEN Outcome([r EXCEPT !.quantity = quantity], Ok(PyNone))
    ELSE Outcome(r, RaiseValueError(InvalidQuantityArgument))

\* Reinforcement.set_spacing
Reinforcement_set_spacing(r, spacing) ==
    IF IsNumber(spacing)
    THEN Outcome([r EXCEPT !.spacing = spacing], Ok(PyNone))
    ELSE Outcome(r, RaiseValueError(InvalidSpacingArgument))

\* a - b for an int b: an int for an int a, TypeError for None or a str.
PySub(a, b) ==
    IF a.kind = "int" THEN Ok(PyInt(a.v - b.v)) ELSE Raise("TypeError")

\* x == 0 for a number.
IsZero(x) == IF x.kind = "int" THEN x.v = 0 ELSE IsZeroFloat(x)

\* a / b (true division): TypeError unless both are numbers,
\* ZeroDivisionError for a zero divisor, else the float quotient.
PyTrueDiv(a, b) ==
    IF ~IsNumber(a) \/ ~IsNumber(b) THEN Raise("TypeError")
    ELSE IF IsZero(b) THEN Raise("ZeroDivisionError")
    ELSE Ok(FloatDiv(ToFloat(a), ToFloat(b)))

\* int(f) + 1 for a float f
PyIntPlusOne(f) == PyInt(FloatToInt(f) + 1)

\* math.floor(f) for |f| < 2^26: rounding toward negative infinity.
FloatFloor(f) ==
    LET t == FloatToInt(f)
    IN  IF ~IsZeroFloat(f) /\ f.neg /\ IntToFloat(t) # f THEN t - 1 ELSE t

\* Mutant of Reinforcement.calculate_spacing: the spacing is cleared before
\* the error is raised.
Reinforcement_calculate_spacing_clearing(r, effective_space) ==
    LET d == PySub(r.quantity, PyInt(1))
        v == IF d.status = "ok" THEN PyTrueDiv(effective_space, d.value) ELSE d
    IN  IF v.status = "ok" THEN Outcome([r EXCEPT !.spacing = v.value], Ok(PyNone))
        ELSE IF v.exc = "TypeError"
        THEN Outcome([r EXCEPT !.spacing = PyNone], RaiseValueError(MissingQuantity))
        ELSE Outcome([r EXCEPT !.spacing = PyNone], RaiseValueError(InvalidQuantity))

\* Mutant of Reinforcement.calculate_quantity: math.floor in place of int.
Reinforcement_calculate_quantity_floor(r, effective_space) ==
    LET v == PyTrueDiv(effective_space, r.spacing)
    IN  IF v.status = "ok"
        THEN Outcome([r EXCEPT !.quantity = PyInt(FloatFloor(v.value) + 1)], Ok(PyNone))
        ELSE IF v.exc = "TypeError" THEN Outcome(r, RaiseValueError(MissingSpacing))
        ELSE Outcome(r, RaiseValueError(InvalidSpacing))

\* Reinforcement.calculate_spacing
Reinforcement_calculate_spacing(r, effective_space) ==
    LET d == PySub(r.quantity, PyInt(1))
        v == IF d.status = "ok" THEN PyTrueDiv(effective_space, d.value) ELSE d
    IN  IF v.status = "ok" THEN Outcome([r EXCEPT !.spacing = v.value], Ok(PyNone))
        ELSE IF v.exc = "TypeError" THEN Outcome(r, RaiseValueError(MissingQuantity))
        ELSE Outcome(r, RaiseValueError(InvalidQuantity))

\* Reinforcement.calculate_quantity
Reinforcement_calculate_quantity(r, effective_space) ==
    LET v == PyTrueDiv(effective_space, r.spacing)
    IN  IF v.status = "ok"
        THEN Outcome([r EXCEPT !.quantity = PyIntPlusOne(v.value)], Ok(PyNone))
        ELSE IF v.exc = "TypeError" THEN Outcome(r, RaiseValueError(MissingSpacing))
        ELSE Outcome(r, RaiseValueError(InvalidSpacing))

VARIABLES
    bar,          \* the Bar instance
    bar_op,       \* the last operation on the Bar
    bar_ret,      \* what it returned or raised
    coords_set,   \* history: the arguments of the last set_coordinates, or PyNone
    element,      \* the Element instance
    elem_op,      \* the last operation on the Element
    elem_ret,     \* what it returned or raised
    reinf,        \* the Reinforcement instance
    r_op,         \* the last operation on the Reinforcement
    r_arg,        \* its argument
    r_ret         \* what it returned or raised

vars == <<bar, bar_op, bar_ret, coords_set, element, elem_op, elem_ret,
          reinf, r_op, r_arg, r_ret>>
barVars == <<bar, bar_op, bar_ret, coords_set>>
elemVars == <<element, elem_op, elem_ret>>
reinfVars == <<reinf, r_op, r_arg, r_ret>>

\* ------------------------------------------------------------ inputs
Radii == {PyInt(n) : n \in 1..MaxRadius}
Coords == {PyInt(n) : n \in 0..MaxCoord}
Lengths == {PyInt(n) : n \in 1..MaxLen}
SectionKinds == {"RECTANGULAR", "CIRCULAR"}
\* 2.5, a float that is no int
TwoAndAHalf == FloatDiv(IntToFloat(5), IntToFloat(2))
NonNumbers == {PyNone, PyStr("five")}
Covers == {PyInt(2)}
LocationArgs == {PyStr("Top"), PyInt(1)}
QuantityArgs == {PyInt(n) : n \in -MaxQuantity..MaxQuantity} \cup NonNumbers \cup {TwoAndAHalf}
SpacingArgs == {PyInt(n) : n \in -MaxSpacing..MaxSpacing} \cup NonNumbers \cup {TwoAndAHalf}
Spaces == {PyInt(n) : n \in -MaxSpace..MaxSpace}
TripQuantities == {PyInt(n) : n \in 2..MaxTripQuantity}
TripSpaces == {PyInt(n) : n \in 0..MaxTripSpace}

\* ------------------------------------------------------------ construction
BarIdle ==
    /\ bar = Bar_init(Circular_init(PyInt(1)))
    /\ bar_op = "init"
    /\ bar_ret = NoCall
    /\ coords_set = PyNone

ElementIdle ==
    /\ element = Element_init("RECTANGULAR")
    /\ elem_op = "init"
    /\ elem_ret = NoCall

ReinforcementIdle ==
    /\ reinf = Reinforcement_init(PyNone, PyNone, PyNone, PyNone, PyNone)
    /\ r_op = "init"
    /\ r_arg = PyNone
    /\ r_ret = NoCall

\* Bar(Circular(r))
InitBar ==
    /\ \E r \in Radii : bar = Bar_init(Circular_init(r))
    /\ bar_op = "init"
    /\ bar_ret = NoCall
    /\ coords_set = PyNone
    /\ ElementIdle
    /\ ReinforcementIdle

\* Element(GeometryType.RECTANGULAR) or Element(GeometryType.CIRCULAR)
InitElement ==
    /\ BarIdle
    /\ \E k \in SectionKinds : element = Element_init(k)
    /\ elem_op = "init"
    /\ elem_ret = NoCall
    /\ ReinforcementIdle

\* Reinforcement(bar=bar)
InitReinforcement ==
    /\ BarIdle
    /\ ElementIdle
    /\ reinf = Reinforcement_init(bar, PyNone, PyNone, PyNone, PyNone)
    /\ r_op = "init"
    /\ r_arg = PyNone
    /\ r_ret = NoCall

\* Reinforcement(bar=bar, quantity=q) with q > 1
InitRoundTrip ==
    /\ BarIdle
    /\ ElementIdle
    /\ \E q \in TripQuantities : reinf = Reinforcement_init(bar, PyNone, PyNone, q, PyNone)
    /\ r_op = "init"
    /\ r_arg = PyNone
    /\ r_ret = NoCall

\* ------------------------------------------------------------ Bar operations
SetCoordinates ==
    /\ \E x \in Coords, y \in Coords :
        /\ bar' = Bar_set_coordinates(bar, x, y)
        /\ coords_set' = PyTuple(x, y)
    /\ bar_op' = "set_coordinates"
    /\ bar_ret' = Ok(PyNone)
    /\ UNCHANGED <<elemVars, reinfVars>>

ReadCoordinates ==
    /\ bar_op' = "coordinates"
    /\ bar_ret' = Bar_coordinates(bar)
    /\ UNCHANGED <<bar, coords_set, elemVars, reinfVars>>

ReadDiameter ==
    /\ bar_op' = "diameter"
    /\ bar_ret' = Bar_diameter(bar)
    /\ UNCHANGED <<bar, coords_set, elemVars, reinfVars>>

ReadArea ==
    /\ bar_op' = "area"
    /\ bar_ret' = Bar_area(bar)
    /\ UNCHANGED <<bar, coords_set, elemVars, reinfVars>>

BarNext ==
    \/ SetCoordinates
    \/ ReadCoordinates
    \/ ReadDiameter
    \/ ReadArea

\* ------------------------------------------------------------ Element operations
SetLength1 ==
    /\ \E l \in Lengths : element' = [element EXCEPT !.length_1 = l]
    /\ elem_op' = "set_length_1"
    /\ elem_ret' = Ok(PyNone)
    /\ UNCHANGED <<barVars, reinfVars>>

SetLength2 ==
    /\ \E l \in Lengths : element' = [element EXCEPT !.length_2 = l]
    /\ elem_op' = "set_length_2"
    /\ elem_ret' = Ok(PyNone)
    /\ UNCHANGED <<barVars, reinfVars>>

SetLength3 ==
    /\ \E l \in Lengths : element' = [element EXCEPT !.length_3 = l]
    /\ elem_op' = "set_length_3"
    /\ elem_ret' = Ok(PyNone)
    /\ UNCHANGED <<barVars, reinfVars>>

SetRadius ==
    /\ \E r \in Radii : element' = [element EXCEPT !.radius = r]
    /\ elem_op' = "set_radius"
    /\ elem_ret' = Ok(PyNone)
    /\ UNCHANGED <<barVars, reinfVars>>

Volume ==
    /\ elem_op' = "volume"
    /\ elem_ret' = Element_volume(element)
    /\ UNCHANGED <<element, barVars, reinfVars>>

Section12 ==
    /\ elem_op' = "section_12"
    /\ elem_ret' = Element_section_12(element)
    /\ UNCHANGED <<element, barVars, reinfVars>>

Section13 ==
    /\ elem_op' = "section_13"
    /\ elem_ret' = Element_section_13(element)
    /\ UNCHANGED <<element, barVars, reinfVars>>

Section23 ==
    /\ elem_op' = "section_23"
    /\ elem_ret' = Element_section_23(element)
    /\ UNCHANGED <<element, barVars, reinfVars>>

CircularSection ==
    /\ elem_op' = "circular_section"
    /\ elem_ret' = Element_circular_section(element)
    /\ UNCHANGED <<element, barVars, reinfVars>>

ElementNext ==
    \/ SetLength1
    \/ SetLength2
    \/ SetLength3
    \/ SetRadius
    \/ Volume
    \/ Section12
    \/ Section13
    \/ Section23
    \/ CircularSection

\* ------------------------------------------------------------ Reinforcement operations
\* One call: the instance and the returned value or raised error it leaves.
Call(op, arg, out) ==
    /\ reinf' = out.self
    /\ r_op' = op
    /\ r_arg' = arg
    /\ r_ret' = out.ret
    /\ UNCHANGED <<barVars, elemVars>>

SetCover ==
    \E c \in Covers :
        \E out \in {Reinforcement_set_cover(reinf, c)} : Call("set_cover", c, out)

SetLocation ==
    \E s \in LocationArgs :
        \E out \in {Reinforcement_set_location(reinf, s)} : Call("set_location", s, out)

SetQuantity ==
    \E n \in QuantityArgs :
        \E out \in {Reinforcement_set_quantity(reinf, n)} : Call("set_quantity", n, out)

SetSpacing ==
    \E v \in SpacingArgs :
        \E out \in {Reinforcement_set_spacing(reinf, v)} : Call("set_spacing", v, out)

CalculateSpacing(S) ==
    \E E \in S :
        \E out \in {Reinforcement_calculate_spacing(reinf, E)} :
            Call("calculate_spacing", E, out)

\* The quantity produced is capped at |quantity| <= cap to keep the model finite.
CalculateQuantity(S, cap) ==
    \E E \in S :
        \E out \in {Reinforcement_calculate_quantity(reinf, E)} :
            /\ out.ret.status = "ok" => Abs(out.self.quantity.v) <= cap
            /\ Call("calculate_quantity", E, out)

ReinforcementNext ==
    \/ SetCover
    \/ SetLocation
    \/ SetQuantity
    \/ SetSpacing
    \/ CalculateSpacing(Spaces)
    \/ CalculateQuantity(Spaces, MaxQuantity)

RoundTripNext ==
    \/ CalculateSpacing(TripSpaces)
    \/ CalculateQuantity(TripSpaces, MaxTripQuantity)

\* ------------------------------------------------------------ specifications
SpecBar == InitBar /\ [][BarNext]_vars
SpecElement == InitElement /\ [][ElementNext]_vars
SpecReinforcement == InitReinforcement /\ [][ReinforcementNext]_vars
SpecRoundTrip == InitRoundTrip /\ [][RoundTripNext]_vars

\* ------------------------------------------------------------ predicates of the claims
\* x <= 0 and x > 0 for a number x (-0.0 is zero).
NonPositive(x) == IF x.kind = "int" THEN x.v <= 0 ELSE IsZeroFloat(x) \/ x.neg
Positive(x) == ~NonPositive(x)

\* |a| <= |b| for floats.
MagLeq(a, b) ==
    \/ IsZeroFloat(a)
    \/ /\ ~IsZeroFloat(b)
       /\ \/ a.e < b.e
          \/ a.e = b.e /\ BigGeq(b.hi, b.lo, a.hi, a.lo)

\* k is the float f rounded toward zero: |k| <= |f| < |k| + 1, with f's sign.
IsTruncationOf(k, f) ==
    /\ MagLeq(IntToFloat(Abs(k)), f)
    /\ ~MagLeq(IntToFloat(Abs(k) + 1), f)
    /\ k # 0 => (k < 0) = f.neg

\* E / s rounded toward zero, for ints E and s # 0.
IntTruncQuotient(E, s) ==
    IF (E < 0) = (s < 0) THEN Abs(E) \div Abs(s) ELSE -(Abs(E) \div Abs(s))

\* floor(E / s) for an int E and a number s > 0: exact for an int s, of the
\* float quotient for a float s.
FloorQuotient(E, s) ==
    IF s.kind = "int" THEN E.v \div s.v ELSE FloatFloor(FloatDiv(ToFloat(E), s))

OtherFields(f) == {"bar", "cover", "location", "quantity", "spacing"} \ {f}
\* The step leaves every field of the Reinforcement but f as it was.
OnlyChanges(f) == \A g \in OtherFields(f) : reinf'[g] = reinf[g]

\* ------------------------------------------------------------ claims
\* C1: with quantity an int q <= 1 (1, 0 or negative), calculate_spacing(E)
\* fails with InvalidQuantity for every E and leaves spacing as it was.
C1_InvalidQuantityAtMostOne ==
    [][(r_op' = "calculate_spacing" /\ IsInt(reinf.quantity) /\ reinf.quantity.v <= 1)
         => (r_ret' = RaiseValueError(InvalidQuantity) /\ reinf'.spacing = reinf.spacing)]_vars

\* C2: calculate_quantity(E) fails with MissingSpacing when spacing is unset
\* and with InvalidSpacing when spacing is a number <= 0; quantity keeps its value.
C2_MissingOrInvalidSpacing ==
    [][r_op' = "calculate_quantity"
         => /\ reinf.spacing = PyNone
                => (r_ret' = RaiseValueError(MissingSpacing) /\ reinf'.quantity = reinf.quantity)
            /\ (IsNumber(reinf.spacing) /\ NonPositive(reinf.spacing))
                => (r_ret' = RaiseValueError(InvalidSpacing) /\ reinf'.quantity = reinf.quantity)]_vars

\* C3: with quantity an int q > 1 and E >= 0, calculate_spacing(E) succeeds
\* and a calculate_quantity(E) that follows it succeeds and leaves quantity = q.
C3_RoundTrip ==
    [][(r_op = "calculate_spacing" /\ IsInt(reinf.quantity) /\ reinf.quantity.v > 1
            /\ r_arg.v >= 0)
         => /\ r_ret = Ok(PyNone)
            /\ (r_op' = "calculate_quantity" /\ r_arg' = r_arg)
                => (r_ret' = Ok(PyNone) /\ reinf'.quantity = reinf.quantity)]_vars

\* C3, for E > 0 only: the same round trip, where the spacing is not zero.
C3_RoundTripPositiveSpace ==
    [][(r_op = "calculate_spacing" /\ IsInt(reinf.quantity) /\ reinf.quantity.v > 1
            /\ r_arg.v > 0)
         => /\ r_ret = Ok(PyNone)
            /\ (r_op' = "calculate_quantity" /\ r_arg' = r_arg)
                => (r_ret' = Ok(PyNone) /\ reinf'.quantity = reinf.quantity)]_vars

\* C4: coordinates returns the Unset sentinel (the message, not a tuple and
\* not an error) when set_coordinates was never called, and otherwise the
\* (x, y) of the last set_coordinates.
C4_CoordinatesUnsetOrLast ==
    bar_op = "coordinates"
        => IF coords_set = PyNone THEN bar_ret = Ok(NoCoordinates)
           ELSE bar_ret = Ok(coords_set)

\* C5: set_quantity(n) stores an int n of any sign; for n not an int (a str,
\* a float, None) it fails with InvalidArgument and changes no field.
C5_SetQuantity ==
    [][r_op' = "set_quantity"
         => IF r_arg'.kind = "int"
            THEN r_ret' = Ok(PyNone) /\ reinf' = [reinf EXCEPT !.quantity = r_arg']
            ELSE r_ret' = RaiseValueError(InvalidQuantityArgument) /\ reinf' = reinf]_vars

\* C5 witness: a negative int was stored.
C5_NegativeStored ==
    /\ r_op = "set_quantity"
    /\ r_arg.kind = "int"
    /\ r_arg.v < 0
    /\ r_ret = Ok(PyNone)
    /\ reinf.quantity = r_arg

\* C6: volume() of a rectangular Element whose three lengths are set is the
\* product of the current length_1, length_2 and length_3.
C6_VolumeIsCurrentProduct ==
    (/\ elem_op = "volume"
     /\ element.section = "RECTANGULAR"
     /\ IsInt(element.length_1) /\ IsInt(element.length_2) /\ IsInt(element.length_3))
        => elem_ret = Ok(PyInt(element.length_1.v * element.length_2.v * element.length_3.v))

\* C6 witness: lengths 4, 3, 2 give 24.
C6_Volume24 ==
    /\ elem_op = "volume"
    /\ element.section = "RECTANGULAR"
    /\ element.length_1 = PyInt(4)
    /\ element.length_2 = PyInt(3)
    /\ element.length_3 = PyInt(2)
    /\ elem_ret = Ok(PyInt(24))

\* C7: requesting the cross-section (1,2), (1,3) or (2,3) while one of its two
\* lengths is unset fails with MissingDimension; with both set it returns the
\* Rectangle of exactly those two lengths.
SectionClaim(a, b) ==
    IF a = PyNone \/ b = PyNone THEN elem_ret = Raise("MissingDimension")
    ELSE elem_ret = Ok(Rectangular_init(a, b))

C7_SectionNeedsBothLengths ==
    /\ elem_op = "section_12" => SectionClaim(element.length_1, element.length_2)
    /\ elem_op = "section_13" => SectionClaim(element.length_1, element.length_3)
    /\ elem_op = "section_23" => SectionClaim(element.length_2, element.length_3)

\* C8: reading a Bar's diameter succeeds, as reading its area does, the area
\* being the Circle's.
C8_DiameterAndAreaDelegate ==
    /\ bar_op = "diameter" => bar_ret.status = "ok"
    /\ bar_op = "area" => bar_ret = Ok(Circular_area(bar.geometry))

\* calculate_quantity assigns quantity alone (C10), so in the state a
\* successful calculate_quantity(E) leaves, reinf.spacing is the spacing the
\* call divided by and r_arg is E.
AfterCalculateQuantity ==
    /\ r_op = "calculate_quantity"
    /\ r_ret = Ok(PyNone)
    /\ IsNumber(reinf.spacing)
    /\ Positive(reinf.spacing)

\* C9 as stated: with spacing > 0, a successful calculate_quantity(E) sets
\* quantity to floor(E / spacing) + 1, floor rounding toward negative infinity.
C9_QuantityIsFloorPlusOne ==
    AfterCalculateQuantity
        => reinf.quantity = PyInt(FloorQuotient(r_arg, reinf.spacing) + 1)

\* C9 as amended: with spacing > 0, a successful calculate_quantity(E) sets
\* quantity to E / spacing rounded toward zero, plus 1: for an int spacing the
\* exact quotient of the two ints, for a float spacing the float quotient.
\* That is floor(E / spacing) + 1 when E >= 0.
C9_QuantityIsTruncationPlusOne ==
    AfterCalculateQuantity
        => /\ IsInt(reinf.quantity)
           /\ IF IsInt(reinf.spacing)
              THEN /\ reinf.quantity.v = IntTruncQuotient(r_arg.v, reinf.spacing.v) + 1
                   /\ r_arg.v >= 0 => reinf.quantity.v = (r_arg.v \div reinf.spacing.v) + 1
              ELSE LET fq == FloatDiv(ToFloat(r_arg), reinf.spacing)
                   IN  /\ IsTruncationOf(reinf.quantity.v - 1, fq)
                       /\ r_arg.v >= 0 => reinf.quantity.v = FloatFloor(fq) + 1

\* C9 witness: E = -1 with spacing 2 gave quantity 1 (floor would give 0).
C9_NegativeSpaceTruncated ==
    /\ r_op = "calculate_quantity"
    /\ r_ret = Ok(PyNone)
    /\ r_arg = PyInt(-1)
    /\ reinf.spacing = PyInt(2)
    /\ reinf.quantity = PyInt(1)

\* C10: calculate_spacing changes no field but spacing, calculate_quantity no
\* field but quantity, each setter only its own field, and a call that fails
\* changes no field.
C10_Frame ==
    [][/\ r_ret'.status = "raise" => reinf' = reinf
       /\ r_op' = "calculate_spacing" => OnlyChanges("spacing")
       /\ r_op' = "calculate_quantity" => OnlyChanges("quantity")
       /\ r_op' = "set_cover" => OnlyChanges("cover")
       /\ r_op' = "set_location" => OnlyChanges("location")
       /\ r_op' = "set_quantity" => OnlyChanges("quantity")
       /\ r_op' = "set_spacing" => OnlyChanges("spacing")]_vars

\* C10 witness: calculate_spacing succeeded on a Reinforcement whose other
\* fields are all set.
C10_SpacingCalculatedOthersSet ==
    /\ r_op = "calculate_spacing"
    /\ r_ret = Ok(PyNone)
    /\ reinf.bar # PyNone
    /\ reinf.cover # PyNone
    /\ reinf.location # PyNone
    /\ reinf.quantity # PyNone
    /\ reinf.spacing # PyNone

=============================================================================
